---- MODULE Spec2Model ----
(***************************************************************************)
(* memalloc: an sbrk-based malloc/free/calloc/realloc (src/memalloc.cpp).  *)
(*                                                                         *)
(* The machine is a WordBits-bit one: size_t and addresses are taken       *)
(* modulo SizeMod = 2^WordBits, and sbrk reads its argument as a signed    *)
(* word (intptr_t).  Block headers live in `hdr`, a map from the address   *)
(* of each header that is linked in the list to its three fields; the      *)
(* bytes of the user regions live in `mem`.  Each thread runs one API call *)
(* at a time, split at the points where it takes the global lock.          *)
(***************************************************************************)
EXTENDS Integers, FiniteSets, Sequences, TLC

WordBits == 8
SizeMod == 2 ^ WordBits
HeaderSize == 16
Alignment == 16
HeapStart == 16
HeapCap == 40
NThreads == 2
MaxVal == 1
MaxAfter == 1
FitCap == 54
MaxCalls == 4

NULL == 0
Threads == 1 .. NThreads

\* request sizes the callers use: small ones, one the heap cannot hold, and
\* the ones where sizeof(header_t) + size leaves the word
SmallSizes == {0, 1, 2}
WideSizes == SmallSizes
               \cup {SizeMod \div 2 - 1, SizeMod - 1, SizeMod - HeaderSize,
                     SizeMod - 2 * HeaderSize - 1}
\* for concurrent callers: two small sizes, the size whose sum with
\* sizeof(header_t) is 0 in the word, and one whose sum is negative for sbrk
HugeSizes == {1, 2, SizeMod - HeaderSize, SizeMod - 2 * HeaderSize - 2}
SmallArgs == {0, 1, 2} \X {0, 1, 2}
WideArgs == SmallArgs \cup {<<2, SizeMod \div 2>>, <<1, SizeMod - 1>>,
                            <<SizeMod - 1, SizeMod - 1>>}

VARIABLES head, tail, hdr, brk, lock, mem, crashed, th, owned, mode, after

vars == <<head, tail, hdr, brk, lock, mem, crashed, th, owned, mode, after>>
heap == <<head, tail, hdr, brk>>

\* the highest break the system grants: room for two blocks, and for three
\* where only malloc and free are called ("fit")
HeapLimit == HeapStart + (IF mode = "fit" THEN FitCap ELSE HeapCap)
MemTop == HeapLimit + HeaderSize + 2
MemAddrs == HeapStart .. (MemTop - 1)

\* intptr_t reading of a size_t value
Signed(x) == IF x >= SizeMod \div 2 THEN x - SizeMod ELSE x

\* the bytes [p, p+n) with address arithmetic in the word
Region(p, n) == {(p + i) % SizeMod : i \in 0 .. (n - 1)}

\* mem holds the bytes that are not zero
Byte(m, a) == IF a \in DOMAIN m THEN m[a] ELSE 0

\* m after the bytes R were written, V(a) to byte a
Store(m, R, V(_)) ==
    LET nv(a) == IF a \in R THEN V(a) ELSE Byte(m, a)
    IN  [a \in {x \in DOMAIN m \cup R : nv(x) # 0} |-> nv(a)]

\* restriction of a function to the domain without a
Drop(f, a) == [x \in DOMAIN f \ {a} |-> f[x]]

\* what a caller remembers of the moment of its call, for the statements
\* about a call's effect; kept only when there is a single caller
NoSnap == [head |-> NULL, tail |-> NULL, hdr |-> << >>, brk |-> 0, mem |-> << >>]

\* a thread between calls.  pc: where it is; op: the entry point it called;
\* cont: who called the malloc or free it is in; size, block, num, nsize: the
\* arguments; new, ret: results; held: the size the caller asked `block` for
Idle == [pc |-> "idle", op |-> "none", cont |-> "none", size |-> 0,
         block |-> NULL, num |-> 0, nsize |-> 0, new |-> NULL, ret |-> NULL,
         held |-> 0, pre |-> NoSnap]

\* "seq": one caller with the wide inputs; "mt": every thread calls, with
\* the small inputs and without writing to its blocks
Active == IF mode \in {"mt", "wide"} THEN Threads ELSE {1}
Sizes == CASE mode = "seq" -> WideSizes
           [] mode = "wide" -> HugeSizes
           [] OTHER -> SmallSizes
CallocArgs == IF mode = "mt" THEN SmallArgs ELSE WideArgs

InitHeap ==
    /\ head = NULL
    /\ tail = NULL
    /\ hdr = << >>
    /\ brk = HeapStart
    /\ lock = 0
    /\ mem = << >>
    /\ crashed = FALSE
    /\ owned = [t \in Threads |-> << >>]
    /\ after = 0

InitThreads == th = [t \in Threads |-> Idle]

Init == InitHeap /\ InitThreads /\ mode = "seq"
InitMT == InitHeap /\ InitThreads /\ mode = "mt"

\* ---------------------------------------------------------------- helpers

Hang == 0 - 1
Fault == 0 - 2

\* get_free_block: first fit from head.  A list that loops back on itself
\* without a fitting block keeps the while loop running for ever (Hang).
RECURSIVE ScanFree(_, _, _)
ScanFree(curr, size, seen) ==
    IF curr = NULL THEN NULL
    ELSE IF curr \notin DOMAIN hdr THEN Fault
    ELSE IF curr \in seen THEN Hang
    ELSE IF hdr[curr].is_free = 1 /\ hdr[curr].size >= size THEN curr
    ELSE ScanFree(hdr[curr].next, size, seen \cup {curr})

\* a best-fit search: the smallest free record that is large enough
get_free_block_best(size) ==
    LET fits == {b \in DOMAIN hdr : hdr[b].is_free = 1 /\ hdr[b].size >= size}
    IN  IF fits = {} THEN NULL
        ELSE CHOOSE b \in fits :
                \A o \in fits : \/ hdr[b].size < hdr[o].size
                                \/ hdr[b].size = hdr[o].size /\ b <= o

get_free_block(size) == ScanFree(head, size, {})

\* the predecessor scan of free: the first temp from head with
\* temp->next == tail; NULL when the loop runs off the end of the list
RECURSIVE ScanPred(_, _)
ScanPred(temp, seen) ==
    IF temp = NULL THEN NULL
    ELSE IF temp \notin DOMAIN hdr THEN Fault
    ELSE IF temp \in seen THEN Hang
    ELSE IF hdr[temp].next = tail THEN temp
    ELSE ScanPred(hdr[temp].next, seen \cup {temp})

\* sbrk(inc): the break moves by the signed increment when the result stays
\* inside the data segment; a growth can also be refused by the system
SbrkCanMove(inc) == (brk + inc) \in HeapStart .. HeapLimit
SbrkOk(inc, ok) ==
    /\ ok => SbrkCanMove(inc)
    /\ ~ok => (inc > 0 \/ ~SbrkCanMove(inc))

\* where a thread goes when its inner malloc returns r
AfterMalloc(f, r) ==
    CASE f.cont = "calloc" -> [f EXCEPT !.pc = "c_after", !.ret = r]
      [] f.cont = "realloc" -> [f EXCEPT !.pc = "r_after", !.new = r]
      [] OTHER -> [f EXCEPT !.pc = "done", !.ret = r]

\* where a thread goes when its inner free returns
AfterFree(f) ==
    IF f.cont = "realloc" THEN [f EXCEPT !.pc = "done", !.ret = f.new]
    ELSE [f EXCEPT !.pc = "done", !.ret = NULL]

Crash == crashed' = TRUE /\ UNCHANGED <<mode, after, head, tail, hdr, brk, lock, mem, th, owned>>

\* a header written at a lands on part of another linked header
Clobbers(a) == \E b \in DOMAIN hdr : b # a /\ b < a + HeaderSize /\ a < b + HeaderSize

\* ---------------------------------------------------------------- malloc

\* a malloc without the zero-size test of lines 46-48
MallocEntryNoZeroCheck(t) ==
    /\ ~crashed
    /\ th[t].pc = "malloc"
    /\ th' = [th EXCEPT ![t].pc = "m_lock"]
    /\ UNCHANGED <<mode, after, head, tail, hdr, brk, lock, mem, crashed, owned>>

\* malloc, lines 44-51: the zero-size return, else on to the lock
MallocEntry(t) ==
    /\ ~crashed
    /\ th[t].pc = "malloc"
    /\ IF th[t].size = 0
       THEN th' = [th EXCEPT ![t] = AfterMalloc(th[t], NULL)]
       ELSE th' = [th EXCEPT ![t].pc = "m_lock"]
    /\ UNCHANGED <<mode, after, head, tail, hdr, brk, lock, mem, crashed, owned>>

\* pthread_mutex_lock, line 51
MallocLock(t) ==
    /\ ~crashed
    /\ th[t].pc = "m_lock"
    /\ lock = 0
    /\ lock' = t
    /\ th' = [th EXCEPT ![t].pc = "m_cs"]
    /\ UNCHANGED <<mode, after, head, tail, hdr, brk, mem, crashed, owned>>

\* malloc, lines 54-63: a free block was found.  When get_free_block never
\* returns (Hang) no step of malloc is enabled: the thread stays in the
\* loop with the lock held.
MallocReuse(t) ==
    LET f == th[t]
        found == get_free_block(f.size)
    IN  /\ ~crashed
        /\ f.pc = "m_cs"
        /\ found \notin {NULL, Hang, Fault}
        /\ hdr' = [hdr EXCEPT ![found].is_free = 0]
        /\ lock' = 0
        /\ th' = [th EXCEPT ![t] = AfterMalloc(f, (found + HeaderSize) % SizeMod)]
        /\ UNCHANGED <<mode, after, head, tail, brk, mem, crashed, owned>>

\* a failure path that forgets the unlock of line 73
MallocFailLocked(t) ==
    LET f == th[t]
    IN  /\ ~crashed
        /\ f.pc = "m_cs"
        /\ get_free_block(f.size) = NULL
        /\ SbrkOk(Signed((HeaderSize + f.size) % SizeMod), FALSE)
        /\ th' = [th EXCEPT ![t] = AfterMalloc(f, NULL)]
        /\ UNCHANGED <<mode, after, head, tail, hdr, brk, lock, mem, crashed, owned>>

\* a failure reported after the break has moved
MallocFailMoved(t) ==
    LET f == th[t]
        inc == Signed((HeaderSize + f.size) % SizeMod)
    IN  /\ ~crashed
        /\ f.pc = "m_cs"
        /\ get_free_block(f.size) = NULL
        /\ SbrkOk(inc, FALSE)
        /\ brk' = IF SbrkCanMove(inc) THEN brk + inc ELSE brk
        /\ lock' = 0
        /\ th' = [th EXCEPT ![t] = AfterMalloc(f, NULL)]
        /\ UNCHANGED <<mode, after, head, tail, hdr, mem, crashed, owned>>

\* malloc, lines 68-75: sbrk fails
MallocFail(t) ==
    LET f == th[t]
        total_size == (HeaderSize + f.size) % SizeMod
    IN  /\ ~crashed
        /\ f.pc = "m_cs"
        /\ get_free_block(f.size) = NULL
        /\ SbrkOk(Signed(total_size), FALSE)
        /\ lock' = 0
        /\ th' = [th EXCEPT ![t] = AfterMalloc(f, NULL)]
        /\ UNCHANGED <<mode, after, head, tail, hdr, brk, mem, crashed, owned>>

\* malloc, lines 68-99: sbrk succeeds, the new header is written at the old
\* break and appended to the list
MallocGrow(t) ==
    LET f == th[t]
        total_size == (HeaderSize + f.size) % SizeMod
        inc == Signed(total_size)
        block == brk
        linked == IF tail # NULL /\ tail # block
                  THEN [hdr EXCEPT ![tail].next = block] ELSE hdr
        rec == [size |-> f.size, is_free |-> 0,
                next |-> IF tail = block THEN block ELSE NULL]
    IN  /\ ~crashed
        /\ f.pc = "m_cs"
        /\ get_free_block(f.size) = NULL
        /\ SbrkOk(inc, TRUE)
        /\ ~Clobbers(block)
        /\ tail # NULL => tail \in DOMAIN hdr
        /\ brk' = brk + inc
        /\ hdr' = (block :> rec) @@ linked
        /\ head' = IF head = NULL THEN block ELSE head
        /\ tail' = block
        /\ lock' = 0
        /\ th' = [th EXCEPT ![t] = AfterMalloc(f, (block + HeaderSize) % SizeMod)]
        /\ UNCHANGED <<mode, after, mem, crashed, owned>>

\* the header write of lines 79-81 faults or lands on another header: the
\* header lies past the new break, or over a linked header
MallocCrash(t) ==
    LET f == th[t]
        inc == Signed((HeaderSize + f.size) % SizeMod)
    IN  /\ ~crashed
        /\ f.pc = "m_cs"
        /\ \/ get_free_block(f.size) = Fault
           \/ /\ get_free_block(f.size) = NULL
              /\ SbrkOk(inc, TRUE)
              /\ \/ Clobbers(brk)
                 \/ brk + HeaderSize > brk + inc
                 \/ tail # NULL /\ tail \notin DOMAIN hdr
        /\ Crash

\* ------------------------------------------------------------------ free

\* free, lines 105-111: the null return, else on to the lock
FreeEntry(t) ==
    /\ ~crashed
    /\ th[t].pc = "free"
    /\ IF th[t].block = NULL
       THEN th' = [th EXCEPT ![t] = AfterFree(th[t])]
       ELSE th' = [th EXCEPT ![t].pc = "f_lock"]
    /\ UNCHANGED <<mode, after, head, tail, hdr, brk, lock, mem, crashed, owned>>

\* pthread_mutex_lock, line 111
FreeLock(t) ==
    /\ ~crashed
    /\ th[t].pc = "f_lock"
    /\ lock = 0
    /\ lock' = t
    /\ th' = [th EXCEPT ![t].pc = "f_cs"]
    /\ UNCHANGED <<mode, after, head, tail, hdr, brk, mem, crashed, owned>>

header_of(block) == (block + SizeMod - HeaderSize) % SizeMod

\* the test of line 119: the block ends at the program break
AtHeapEnd(block) ==
    (block + hdr[header_of(block)].size) % SizeMod = brk

\* line 136: the argument of sbrk, 0 - sizeof(header_t) - size in size_t
shrink_by_size(size) == (SizeMod - size) % SizeMod
shrink_by(size) == (2 * SizeMod - HeaderSize - size) % SizeMod

\* the list after lines 120-134: <<head, tail, hdr>> with the tail unlinked
Unlinked ==
    LET pred == ScanPred(head, {})
    IN  IF head = tail THEN <<NULL, NULL, Drop(hdr, tail)>>
        ELSE IF pred = NULL THEN <<head, tail, hdr>>
        ELSE IF pred = tail THEN <<head, pred, [hdr EXCEPT ![pred].next = NULL]>>
        ELSE <<head, pred, Drop([hdr EXCEPT ![pred].next = NULL], tail)>>

\* free, lines 114-140: the block is at the end of the heap; the tail is
\* unlinked and the break retracted by the header and the block's size
FreeShrink(t) ==
    LET f == th[t]
        size == hdr[header_of(f.block)].size
        inc == Signed(shrink_by(size))
    IN  /\ ~crashed
        /\ f.pc = "f_cs"
        /\ header_of(f.block) \in DOMAIN hdr
        /\ AtHeapEnd(f.block)
        /\ head # tail => ScanPred(head, {}) \notin {Hang, Fault}
        /\ head' = Unlinked[1]
        /\ tail' = Unlinked[2]
        /\ hdr' = Unlinked[3]
        /\ \E ok \in BOOLEAN :
              /\ SbrkOk(inc, ok)
              /\ brk' = IF ok THEN brk + inc ELSE brk
        /\ mem' = Store(mem, {a \in DOMAIN mem : a >= brk'}, LAMBDA a : 0)
        /\ lock' = 0
        /\ th' = [th EXCEPT ![t] = AfterFree(f)]
        /\ UNCHANGED <<mode, after, crashed, owned>>

\* free, lines 142-147: the block is not at the end of the heap
FreeMark(t) ==
    LET f == th[t]
    IN  /\ ~crashed
        /\ f.pc = "f_cs"
        /\ header_of(f.block) \in DOMAIN hdr
        /\ ~AtHeapEnd(f.block)
        /\ hdr' = [hdr EXCEPT ![header_of(f.block)].is_free = 1]
        /\ lock' = 0
        /\ th' = [th EXCEPT ![t] = AfterFree(f)]
        /\ UNCHANGED <<mode, after, head, tail, brk, mem, crashed, owned>>

\* line 119 reads a header that is no longer part of the heap
FreeCrash(t) ==
    /\ ~crashed
    /\ th[t].pc = "f_cs"
    /\ header_of(th[t].block) \notin DOMAIN hdr
    /\ Crash

\* ---------------------------------------------------------------- calloc

\* line 156: the product in size_t
calloc_size(num, nsize) == (num * nsize) % SizeMod

\* a check that only looks whether the product came out small
calloc_overflow_lt(num, nsize) == calloc_size(num, nsize) < nsize

\* line 159: the division back-check
calloc_overflow(num, nsize) == nsize # calloc_size(num, nsize) \div num

\* calloc, lines 152-163
CallocEntry(t) ==
    LET f == th[t]
    IN  /\ ~crashed
        /\ f.pc = "calloc"
        /\ IF f.num = 0 \/ f.nsize = 0
           THEN th' = [th EXCEPT ![t] = [f EXCEPT !.pc = "done", !.ret = NULL]]
           ELSE IF calloc_overflow(f.num, f.nsize)
           THEN th' = [th EXCEPT ![t] = [f EXCEPT !.pc = "done", !.ret = NULL]]
           ELSE th' = [th EXCEPT ![t] = [f EXCEPT !.pc = "malloc", !.cont = "calloc",
                                           !.size = calloc_size(f.num, f.nsize)]]
        /\ UNCHANGED <<mode, after, head, tail, hdr, brk, lock, mem, crashed, owned>>

\* a write of the bytes R by memset or memcpy stays clear of the headers
WriteOK(R) ==
    /\ R \subseteq MemAddrs
    /\ \A b \in DOMAIN hdr : R \cap (b .. (b + HeaderSize - 1)) = {}

InHeap(R) == R \subseteq HeapStart .. (brk - 1)

\* the bytes memset(block, 0, size) clears
memset_short(block, size) == Region(block, size - 1)
memset_bytes(block, size) == Region(block, size)

\* calloc, lines 164-170
CallocAfter(t) ==
    LET f == th[t]
        R == memset_bytes(f.ret, f.size)
    IN  /\ ~crashed
        /\ f.pc = "c_after"
        /\ IF f.ret = NULL
           THEN mem' = mem
           ELSE /\ WriteOK(R)
                /\ mem' = Store(mem, R, LAMBDA a : 0)
        /\ th' = [th EXCEPT ![t].pc = "done"]
        /\ UNCHANGED <<mode, after, head, tail, hdr, brk, lock, crashed, owned>>

\* the memset of line 169 leaves the heap
CallocCrash(t) ==
    LET f == th[t]
        R == memset_bytes(f.ret, f.size)
    IN  /\ ~crashed
        /\ f.pc = "c_after"
        /\ f.ret # NULL
        /\ ~InHeap(R) \/ ~WriteOK(R)
        /\ Crash

\* --------------------------------------------------------------- realloc

\* line 186: the block is already large enough
realloc_fits_strict(have, want) == have > want
realloc_fits(have, want) == have >= want

\* a realloc that releases the block when the new size is 0
ReallocEntryFreeing(t) ==
    LET f == th[t]
    IN  /\ ~crashed
        /\ f.pc = "realloc"
        /\ f.block # NULL
        /\ f.size = 0
        /\ th' = [th EXCEPT ![t] = [f EXCEPT !.pc = "free", !.cont = "client"]]
        /\ UNCHANGED <<mode, after, head, tail, hdr, brk, lock, mem, crashed, owned>>

\* realloc, lines 175-191
ReallocEntry(t) ==
    LET f == th[t]
    IN  /\ ~crashed
        /\ f.pc = "realloc"
        /\ IF f.block = NULL \/ f.size = 0
           THEN th' = [th EXCEPT ![t] = [f EXCEPT !.pc = "malloc", !.cont = "client"]]
           ELSE /\ header_of(f.block) \in DOMAIN hdr
                /\ IF realloc_fits(hdr[header_of(f.block)].size, f.size)
                   THEN th' = [th EXCEPT ![t] = [f EXCEPT !.pc = "done", !.ret = f.block]]
                   ELSE th' = [th EXCEPT ![t] = [f EXCEPT !.pc = "malloc", !.cont = "realloc"]]
        /\ UNCHANGED <<mode, after, head, tail, hdr, brk, lock, mem, crashed, owned>>

\* the number of bytes the memcpy of line 194 copies
memcpy_len(block) == hdr[header_of(block)].size

\* realloc, lines 192-198: copy and free the old block, or return null
ReallocAfter(t) ==
    LET f == th[t]
        n == memcpy_len(f.block)
        dst == Region(f.new, n)
        src == Region(f.block, n)
    IN  /\ ~crashed
        /\ f.pc = "r_after"
        /\ IF f.new = NULL
           THEN /\ mem' = mem
                /\ th' = [th EXCEPT ![t] = [f EXCEPT !.pc = "done", !.ret = NULL]]
           ELSE /\ header_of(f.block) \in DOMAIN hdr
                /\ WriteOK(dst)
                /\ src \subseteq MemAddrs
                /\ src \cap dst = {}
                /\ mem' = Store(mem, dst, LAMBDA a : Byte(mem, f.block + (a - f.new)))
                /\ th' = [th EXCEPT ![t] = [f EXCEPT !.pc = "free", !.cont = "realloc"]]
        /\ UNCHANGED <<mode, after, head, tail, hdr, brk, lock, crashed, owned>>

\* the memcpy of line 194 reads or writes outside the heap
ReallocCrash(t) ==
    LET f == th[t]
        n == memcpy_len(f.block)
    IN  /\ ~crashed
        /\ \/ /\ f.pc = "realloc"
              /\ f.block # NULL /\ f.size # 0
              /\ header_of(f.block) \notin DOMAIN hdr
           \/ /\ f.pc = "r_after"
              /\ f.new # NULL
              /\ \/ header_of(f.block) \notin DOMAIN hdr
                 \/ /\ header_of(f.block) \in DOMAIN hdr
                    /\ \/ ~InHeap(Region(f.new, n))
                       \/ ~WriteOK(Region(f.new, n))
                       \/ ~InHeap(Region(f.block, n))
                       \/ Region(f.block, n) \cap Region(f.new, n) # {}
        /\ Crash

\* the next step of thread t reads or writes head, tail, a field of a record
\* or the break: the critical sections of malloc (lines 54-93) and of free
\* (lines 114-144), and in realloc the reads of header_ptr->s.size at lines
\* 186 and 194, which come before and after its call of malloc
TouchesList(t) ==
    \/ th[t].pc \in {"m_cs", "f_cs"}
    \/ th[t].pc = "realloc" /\ th[t].block # NULL /\ th[t].size # 0
    \/ th[t].pc = "r_after" /\ th[t].new # NULL

\* ---------------------------------------------------------------- callers

Pattern(v, i) == ((i + v) % 2) + 1

Snapshot ==
    IF mode \in {"seq", "fit"}
    THEN [head |-> head, tail |-> tail, hdr |-> hdr, brk |-> brk, mem |-> mem]
    ELSE NoSnap

\* the frame of a call by the client
Frame(op) == [Idle EXCEPT !.pc = op, !.op = op, !.cont = "client", !.pre = Snapshot]

\* the size the caller asked for when it got the pointer p
HeldSize(t, p) == IF p = NULL THEN 0 ELSE owned[t][p]

\* the records from head along next, as far as they are distinct
RECURSIVE Chain(_, _)
Chain(a, seen) ==
    IF a = NULL \/ a \in seen \/ a \notin DOMAIN hdr THEN << >>
    ELSE <<a>> \o Chain(hdr[a].next, seen \cup {a})

BlockEnd(a) == a + HeaderSize + hdr[a].size

\* the list is the blocks of the heap in address order, from the first break
\* to the current one
Partition ==
    LET c == Chain(head, {})
    IN  /\ Len(c) = Cardinality(DOMAIN hdr)
        /\ IF c = << >>
           THEN head = NULL /\ tail = NULL /\ brk = HeapStart
           ELSE /\ c[1] = HeapStart
                /\ tail = c[Len(c)]
                /\ hdr[tail].next = NULL
                /\ BlockEnd(tail) = brk
                /\ \A i \in 1 .. (Len(c) - 1) : BlockEnd(c[i]) = c[i + 1]

\* a caller that is between calls may start one; once the heap is no longer
\* a partition only MaxAfter more calls are followed, and with the sizes of
\* "wide" MaxCalls calls in all
CanCall(t) ==
    /\ ~crashed
    /\ t \in Active
    /\ th[t].pc = "idle"
    /\ IF mode = "wide" THEN after < MaxCalls ELSE Partition \/ after < MaxAfter
    /\ after' = IF mode # "wide" /\ Partition THEN after ELSE after + 1

CallMalloc(t) ==
    /\ CanCall(t)
    /\ \E n \in Sizes :
          th' = [th EXCEPT ![t] = [Frame("malloc") EXCEPT !.size = n]]
    /\ UNCHANGED <<mode, head, tail, hdr, brk, lock, mem, crashed, owned>>

\* the caller gives the pointer up when it calls free
CallFree(t) ==
    /\ CanCall(t)
    /\ \E p \in DOMAIN owned[t] \cup {NULL} :
          /\ th' = [th EXCEPT ![t] = [Frame("free") EXCEPT !.block = p,
                                        !.held = HeldSize(t, p)]]
          /\ owned' = [owned EXCEPT ![t] = Drop(owned[t], p)]
    /\ UNCHANGED <<mode, head, tail, hdr, brk, lock, mem, crashed>>

CallCalloc(t) ==
    /\ CanCall(t)
    /\ \E a \in CallocArgs :
          th' = [th EXCEPT ![t] = [Frame("calloc") EXCEPT !.num = a[1], !.nsize = a[2]]]
    /\ UNCHANGED <<mode, head, tail, hdr, brk, lock, mem, crashed, owned>>

CallRealloc(t) ==
    /\ CanCall(t)
    /\ \E p \in DOMAIN owned[t] \cup {NULL}, m \in Sizes :
          th' = [th EXCEPT ![t] = [Frame("realloc") EXCEPT !.block = p, !.size = m,
                                     !.held = HeldSize(t, p)]]
    /\ UNCHANGED <<mode, head, tail, hdr, brk, lock, mem, crashed, owned>>

\* the caller fills an allocation it holds, when that lies in the heap
Write(t) ==
    /\ ~crashed
    /\ mode = "seq"
    /\ t \in Active
    /\ th[t].pc = "idle"
    /\ \E p \in DOMAIN owned[t], v \in 1 .. MaxVal :
          LET R == Region(p, owned[t][p])
          IN  /\ InHeap(R)
              /\ WriteOK(R)
              /\ mem' = Store(mem, R, LAMBDA a : Pattern(v, a - p))
    /\ UNCHANGED <<mode, after, head, tail, hdr, brk, lock, crashed, th, owned>>

\* the call returns: a non-null result is now held by the caller, and the
\* block a realloc replaced is not.  A realloc that returns the same block
\* leaves the caller with the larger of the two sizes it asked for.
Return(t) ==
    LET f == th[t]
        old == IF f.op = "realloc" THEN f.block ELSE NULL
        n == IF f.op = "realloc" /\ f.ret = f.block /\ f.held > f.size
             THEN f.held ELSE f.size
    IN  /\ ~crashed
        /\ f.pc = "done"
        /\ owned' = [owned EXCEPT ![t] =
                       IF f.ret = NULL THEN @
                       ELSE (f.ret :> n) @@ Drop(@, old)]
        /\ th' = [th EXCEPT ![t] = Idle]
        /\ UNCHANGED <<mode, after, head, tail, hdr, brk, lock, mem, crashed>>

\* the steps of the four entry points and of their callers
Step(t) ==
    \/ CallMalloc(t) \/ CallFree(t) \/ CallCalloc(t) \/ CallRealloc(t)
    \/ Return(t)
    \/ MallocEntry(t) \/ MallocLock(t) \/ MallocReuse(t)
    \/ MallocFail(t) \/ MallocGrow(t)
    \/ FreeEntry(t) \/ FreeLock(t) \/ FreeShrink(t) \/ FreeMark(t)
    \/ CallocEntry(t) \/ CallocAfter(t)
    \/ ReallocEntry(t) \/ ReallocAfter(t)

\* one caller, every request size, the caller writes to its blocks
Next ==
    \E t \in Threads :
        \/ Step(t)
        \/ Write(t)
        \/ MallocCrash(t) \/ FreeCrash(t) \/ CallocCrash(t) \/ ReallocCrash(t)

\* NThreads callers, the small request sizes
NextMT == \E t \in Threads : Step(t)

\* calloc alone, called once on the empty heap with any two words
InitCalloc ==
    /\ InitHeap
    /\ mode = "calloc"
    /\ \E c \in 0 .. (SizeMod - 1), s \in 0 .. (SizeMod - 1) :
          th = [t \in Threads |->
                  IF t = 1
                  THEN [Idle EXCEPT !.pc = "calloc", !.op = "calloc",
                                    !.cont = "client", !.num = c, !.nsize = s,
                                    !.pre = [head |-> NULL, tail |-> NULL,
                                             hdr |-> << >>, brk |-> HeapStart,
                                             mem |-> << >>]]
                  ELSE Idle]

NextCalloc ==
    \E t \in Threads :
        \/ CallocEntry(t) \/ CallocAfter(t) \/ CallocCrash(t)
        \/ MallocEntry(t) \/ MallocLock(t) \/ MallocFail(t) \/ MallocGrow(t)
        \/ MallocCrash(t)
        \/ Return(t)

\* one caller of malloc and free alone, the small request sizes, a heap
\* with room for three blocks
InitFit == InitHeap /\ InitThreads /\ mode = "fit"

NextFit ==
    \E t \in Threads :
        \/ CallMalloc(t) \/ CallFree(t) \/ Return(t)
        \/ MallocEntry(t) \/ MallocLock(t) \/ MallocReuse(t)
        \/ MallocFail(t) \/ MallocGrow(t)
        \/ FreeEntry(t) \/ FreeLock(t) \/ FreeShrink(t) \/ FreeMark(t)

\* NThreads callers of malloc, free and realloc, with the sizes for which
\* sizeof(header_t) + size leaves the word
InitWide == InitHeap /\ InitThreads /\ mode = "wide"

NextWide ==
    \E t \in Threads :
        \/ CallMalloc(t) \/ CallFree(t) \/ CallRealloc(t) \/ Return(t)
        \/ MallocEntry(t) \/ MallocLock(t) \/ MallocReuse(t)
        \/ MallocFail(t) \/ MallocGrow(t)
        \/ FreeEntry(t) \/ FreeLock(t) \/ FreeShrink(t) \/ FreeMark(t)
        \/ ReallocEntry(t) \/ ReallocAfter(t)
        \/ MallocCrash(t) \/ FreeCrash(t) \/ ReallocCrash(t)

Spec == Init /\ [][Next]_vars
SpecWide == InitWide /\ [][NextWide]_vars
SpecFit == InitFit /\ [][NextFit]_vars
SpecCalloc == InitCalloc /\ [][NextCalloc]_vars
SpecMT == InitMT /\ [][NextMT]_vars

\* ----------------------------------------------------------- properties

\* the allocations the callers hold: <<thread, pointer, size asked for>>,
\* and with a fourth component 1 the one a finished call is handing over.
\* The block a finished realloc has replaced is no longer held.
Replaced(t) ==
    IF th[t].pc = "done" /\ th[t].op = "realloc" /\ th[t].ret # NULL
    THEN {th[t].block} ELSE {}

Live ==
    UNION {{<<t, p, owned[t][p], 0>> : p \in DOMAIN owned[t] \ Replaced(t)}
              : t \in Threads}
    \cup {<<t, th[t].ret, IF th[t].held > th[t].size /\ th[t].ret = th[t].block
                          THEN th[t].held ELSE th[t].size, 1>>
              : t \in {u \in Threads : th[u].pc = "done" /\ th[u].ret # NULL}}

HeaderBytes(b) == b .. (b + HeaderSize - 1)

\* C1: the user regions [p, p+n) of two distinct live allocations are
\* disjoint, and no live user region overlaps the bytes of a Block Record
\* that is in the list.
C1_NoAliasing ==
    /\ \A x \in Live, y \in Live :
          x # y => Region(x[2], x[3]) \cap Region(y[2], y[3]) = {}
    /\ \A x \in Live, b \in DOMAIN hdr :
          Region(x[2], x[3]) \cap HeaderBytes(b) = {}

\* thread t has finished a call of op and not yet returned to its caller
Done(t, op) == th[t].pc = "done" /\ th[t].op = op

\* the record of the block argument as it was when the call started
PreRec(t) == th[t].pre.hdr[header_of(th[t].block)]

\* a realloc of a block the caller held, whose record was in the list
ReallocOf(t) ==
    /\ Done(t, "realloc")
    /\ th[t].block # NULL
    /\ header_of(th[t].block) \in DOMAIN th[t].pre.hdr

\* the heap and the bytes are as they were when the call of t started
SameAsBefore(t) ==
    /\ <<head, tail, hdr, brk>> =
          <<th[t].pre.head, th[t].pre.tail, th[t].pre.hdr, th[t].pre.brk>>
    /\ mem = th[t].pre.mem

\* C2: when resize(p, m) with m > s (s the size in p's record) returns a
\* non-null q, the first s bytes at q are those that were at p, q's record
\* has size >= m, and p's block is released (marked free or removed).
C2_GrowCopies ==
    \A t \in Threads :
        (ReallocOf(t) /\ th[t].size > PreRec(t).size /\ th[t].ret # NULL) =>
            LET q == th[t].ret
                pb == th[t].block
            IN  /\ \A i \in 0 .. (PreRec(t).size - 1) :
                      Byte(mem, q + i) = Byte(th[t].pre.mem, pb + i)
                /\ header_of(q) \in DOMAIN hdr
                /\ hdr[header_of(q)].size >= th[t].size
                /\ \/ header_of(pb) \notin DOMAIN hdr
                   \/ hdr[header_of(pb)].is_free = 1

\* C3: when resize(p, m) needs a larger block and the inner allocate fails,
\* resize returns null and p's record is still in the list, not free, with
\* the same size, address and contents; head, tail and the heap boundary
\* are as before the call.
C3_GrowFailureKeepsOld ==
    \A t \in Threads :
        (ReallocOf(t) /\ th[t].size > PreRec(t).size /\ th[t].ret = NULL) =>
            /\ SameAsBefore(t)
            /\ header_of(th[t].block) \in DOMAIN hdr
            /\ hdr[header_of(th[t].block)].is_free = 0

C3_Witness ==
    \E t \in Threads :
        /\ ReallocOf(t) /\ th[t].size > PreRec(t).size /\ th[t].ret = NULL
        /\ \E a \in Region(th[t].block, PreRec(t).size) : Byte(mem, a) # 0

\* C4: when allocate_zeroed(c, s) returns a non-null p, each of the c*s
\* bytes from p is zero, also in a reused block that held other bytes.
C4_CallocZeroed ==
    \A t \in Threads :
        (Done(t, "calloc") /\ th[t].ret # NULL) =>
            \A i \in 0 .. (th[t].num * th[t].nsize - 1) :
                /\ th[t].ret + i \in MemAddrs
                /\ Byte(mem, th[t].ret + i) = 0

C4_Witness ==
    \E t \in Threads :
        /\ Done(t, "calloc") /\ th[t].ret # NULL
        /\ th[t].num * th[t].nsize > 1
        /\ \A i \in 0 .. (th[t].num * th[t].nsize - 1) :
              Byte(th[t].pre.mem, th[t].ret + i) # 0

\* C5: for c > 0 and s > 0, allocate_zeroed(c, s) returns null without
\* calling allocate and without changing the list or the boundary exactly
\* when the true product c*s is >= 2^w.
C5_OverflowCheckExact ==
    \A t \in Threads :
        (th[t].op = "calloc" /\ th[t].pc # "calloc"
            /\ th[t].num > 0 /\ th[t].nsize > 0) =>
            /\ (th[t].cont = "client") <=> (th[t].num * th[t].nsize >= SizeMod)
            /\ th[t].cont = "client" =>
                  th[t].pc = "done" /\ th[t].ret = NULL /\ SameAsBefore(t)

C5_Witness ==
    \E t \in Threads :
        /\ Done(t, "calloc") /\ th[t].cont = "client"
        /\ th[t].num * th[t].nsize >= SizeMod
        /\ calloc_size(th[t].num, th[t].nsize) > th[t].num
        /\ calloc_size(th[t].num, th[t].nsize) > th[t].nsize

\* a release of the tail block, whose region ended at the heap boundary
FreeAtEnd(t) ==
    /\ Done(t, "free")
    /\ th[t].block # NULL
    /\ header_of(th[t].block) \in DOMAIN th[t].pre.hdr
    /\ header_of(th[t].block) = th[t].pre.tail
    /\ th[t].block + PreRec(t).size = th[t].pre.brk

\* C6 as stated: after release(p) of the block at the heap end, p obtained
\* by allocate(n), the boundary is sizeof(BlockRecord) + n lower.
C6_ShrinkByRequest ==
    \A t \in Threads :
        FreeAtEnd(t) => brk = th[t].pre.brk - (HeaderSize + th[t].held)

\* C6 amended: the boundary is lower by sizeof(BlockRecord) plus the size in
\* p's record, which is the size the block was created with and can exceed
\* the n of the allocate(n) that reused it.
C6_ShrinkByRecorded ==
    \A t \in Threads :
        FreeAtEnd(t) => brk = th[t].pre.brk - (HeaderSize + PreRec(t).size)

C6_Witness ==
    \E t \in Threads : FreeAtEnd(t) /\ th[t].held < PreRec(t).size

\* C7: resize(p, m) with 0 < m <= recorded size returns p and leaves head,
\* tail, every record, the heap boundary and the bytes of p unchanged.
C7_ShrinkIsNoop ==
    \A t \in Threads :
        (ReallocOf(t) /\ th[t].size > 0 /\ th[t].size <= PreRec(t).size) =>
            th[t].ret = th[t].block /\ SameAsBefore(t)

C7_Witness ==
    \E t \in Threads :
        /\ ReallocOf(t) /\ th[t].size = PreRec(t).size
        /\ Byte(mem, th[t].block) # 0

\* C8: when allocate(n), n > 0, finds no free record of size >= n and the
\* boundary extension fails, it returns null and head, tail, every record
\* and the heap boundary are as before the call.
C8_FailureChangesNothing ==
    \A t \in Threads :
        (Done(t, "malloc") /\ th[t].size > 0 /\ th[t].ret = NULL) =>
            /\ SameAsBefore(t)
            /\ LET c == Chain(head, {})
               IN  \A i \in 1 .. Len(c) :
                      ~(hdr[c[i]].is_free = 1 /\ hdr[c[i]].size >= th[t].size)

C8_Witness ==
    \E t \in Threads :
        /\ Done(t, "malloc") /\ th[t].size \in 1 .. HeapCap /\ th[t].ret = NULL
        /\ \E b \in DOMAIN hdr : hdr[b].is_free = 1

\* C10: resize(p, 0) returns null and does not release p: the record stays
\* in the list, not free, and head, tail, all records and the boundary are
\* unchanged.
C10_ResizeZeroLeaks ==
    \A t \in Threads :
        (ReallocOf(t) /\ th[t].size = 0) =>
            /\ th[t].ret = NULL
            /\ SameAsBefore(t)
            /\ hdr[header_of(th[t].block)].is_free = 0

C10_Witness ==
    \E t \in Threads : ReallocOf(t) /\ th[t].size = 0 /\ th[t].pre.tail # th[t].pre.head

\* C11: allocate(0) returns null and release(null) returns, and each leaves
\* head, tail, every record, the heap boundary and the lock as they were
\* before the call (the lock is not held when the single caller calls).
C11_TrivialCallsChangeNothing ==
    \A t \in Threads :
        /\ (Done(t, "malloc") /\ th[t].size = 0) =>
              th[t].ret = NULL /\ SameAsBefore(t) /\ lock = 0
        /\ (Done(t, "free") /\ th[t].block = NULL) =>
              SameAsBefore(t) /\ lock = 0

C11_Witness ==
    \E t \in Threads :
        /\ Done(t, "malloc") /\ th[t].size = 0
        /\ \E b \in DOMAIN hdr : hdr[b].is_free = 1

\* C12: every read or write of head, tail or a field of a record, and every
\* call of sbrk, is made by a thread that holds the global lock, and at most
\* one thread is in a critical section; calloc and realloc touch no record
\* outside their calls of malloc and free.
C12_AccessUnderLock ==
    /\ \A t \in Threads : TouchesList(t) => lock = t
    /\ Cardinality({t \in Threads : th[t].pc \in {"m_cs", "f_cs"}}) <= 1

\* C13: when no thread is inside a critical section the list is an exact
\* partition of the heap: from head along next each record starts where the
\* previous one's region ends, the last one is tail and ends at the break,
\* and with an empty list (head = tail = NULL) the break is the initial one.
C13_ListPartitionsHeap ==
    (\A t \in Threads : th[t].pc \notin {"m_cs", "f_cs"}) =>
        LET c == Chain(head, {})
        IN  IF head = NULL
            THEN tail = NULL /\ brk = HeapStart
            ELSE /\ c # << >>
                 /\ c[1] = HeapStart
                 /\ \A i \in 1 .. (Len(c) - 1) :
                       c[i + 1] = c[i] + HeaderSize + hdr[c[i]].size
                 /\ c[Len(c)] = tail
                 /\ hdr[tail].next = NULL
                 /\ tail + HeaderSize + hdr[tail].size = brk

\* thread t takes, in this step, the heap-end path of free (lines 119-140)
ShrinkStep(t) ==
    /\ th[t].pc = "f_cs"
    /\ th'[t].pc # "f_cs"
    /\ header_of(th[t].block) \in DOMAIN hdr
    /\ AtHeapEnd(th[t].block)

\* C14: when release(p) finds p's region ending at the break, the record it
\* unlinks is p's own: tail is the last record from head and the highest
\* one, p's record is tail, afterwards the list is the old one without its
\* last record, tail is the former predecessor with next = NULL (or head =
\* tail = NULL), and the break is lower by sizeof(header_t) + the size.
C14_ShrinkUnlinksOwnRecord ==
    [][\A t \in Threads : ShrinkStep(t) =>
          LET p == header_of(th[t].block)
              c == Chain(head, {})
              d == Chain(head, {})'
          IN  /\ c # << >>
              /\ c[Len(c)] = tail
              /\ \A i \in 1 .. Len(c) : c[i] <= tail
              /\ tail = p
              /\ d = SubSeq(c, 1, Len(c) - 1)
              /\ IF d = << >>
                 THEN head' = NULL /\ tail' = NULL
                 ELSE head' = head /\ tail' = d[Len(d)] /\ hdr'[tail'].next = NULL
              /\ brk' = brk - HeaderSize - hdr[p].size]_vars

\* the records of the list h from a along next, as far as they are distinct
RECURSIVE ChainIn(_, _, _)
ChainIn(h, a, seen) ==
    IF a = NULL \/ a \in seen \/ a \notin DOMAIN h THEN << >>
    ELSE <<a>> \o ChainIn(h, h[a].next, seen \cup {a})

\* the positions, in the list as it was at the call of t, of the free
\* records that are large enough for the request
FitsBefore(t) ==
    LET c == ChainIn(th[t].pre.hdr, th[t].pre.head, {})
    IN  {i \in 1 .. Len(c) : /\ th[t].pre.hdr[c[i]].is_free = 1
                              /\ th[t].pre.hdr[c[i]].size >= th[t].size}

\* C15: when at the call of allocate(n), n > 0, some record of the list is
\* free with size >= n, allocate returns the user pointer of the first such
\* record in list order, clears only that record's free flag and leaves
\* head, tail, every next link, every size and the break as they were; the
\* heap grows only when there is no such record.
C15_FirstFit ==
    \A t \in Threads :
        (Done(t, "malloc") /\ th[t].size > 0 /\ FitsBefore(t) # {}) =>
            LET c == ChainIn(th[t].pre.hdr, th[t].pre.head, {})
                i == CHOOSE j \in FitsBefore(t) : \A k \in FitsBefore(t) : j <= k
            IN  /\ th[t].ret = c[i] + HeaderSize
                /\ hdr = [th[t].pre.hdr EXCEPT ![c[i]].is_free = 0]
                /\ <<head, tail, brk>> =
                      <<th[t].pre.head, th[t].pre.tail, th[t].pre.brk>>

\* two free records fit and the first of them is not the smallest
C15_Witness ==
    \E t \in Threads :
        /\ Done(t, "malloc") /\ th[t].size > 0
        /\ \E i, j \in FitsBefore(t) :
              LET c == ChainIn(th[t].pre.hdr, th[t].pre.head, {})
              IN  /\ i < j
                  /\ th[t].ret = c[i] + HeaderSize
                  /\ th[t].pre.hdr[c[j]].size < th[t].pre.hdr[c[i]].size

\* C16: a record whose free flag is set is never removed from the list and
\* the break is never retracted below its end: in every step it keeps its
\* position in the list (until an allocate clears the flag), also when a
\* release of the tail leaves it as the last block of the heap.
C16_FreeRecordsStay ==
    [][LET c == Chain(head, {})
           d == Chain(head, {})'
       IN  \A i \in 1 .. Len(c) :
              hdr[c[i]].is_free = 1 =>
                  /\ i <= Len(d)
                  /\ d[i] = c[i]
                  /\ brk' < brk => brk' >= c[i] + HeaderSize + hdr[c[i]].size]_vars

\* C17: with the initial break a multiple of 16, every record in the list
\* starts at an address that is a multiple of 16, whatever sizes were asked.
C17_RecordsAligned ==
    (HeapStart % Alignment = 0) =>
        LET c == Chain(head, {})
        IN  \A i \in 1 .. Len(c) : c[i] % Alignment = 0

\* C18: from its creation to its removal from the list a record keeps its
\* address and its size: a step changes, in a record that is in the list
\* before and after it, only the free flag or the next link.
C18_SizeNeverChanges ==
    [][LET c == Chain(head, {})
           d == Chain(head, {})'
       IN  \A i \in 1 .. Len(c) :
              (\E j \in 1 .. Len(d) : d[j] = c[i]) =>
                  hdr'[c[i]].size = hdr[c[i]].size]_vars

\* thread t is inside a growing realloc, between the return of its inner
\* malloc with a new block (line 191) and the lock of its inner free of the
\* old one (line 196): the time of the memcpy of line 194
InGrowingCopy(t) ==
    /\ th[t].op = "realloc"
    /\ th[t].cont = "realloc"
    /\ th[t].new # NULL
    /\ th[t].pc \in {"r_after", "free", "f_lock"}

\* C19: while a thread is inside a growing resize(p, m), from the return of
\* its inner allocate to the start of its inner release, the record of p and
\* the new record are both in the list with the free flag clear, and no
\* other thread holds or is being handed p or the new block.
C19_CopyBlocksStayLive ==
    \A t \in Threads :
        InGrowingCopy(t) =>
            LET c == Chain(head, {})
                old == header_of(th[t].block)
                new == header_of(th[t].new)
            IN  /\ old # new
                /\ \E i \in 1 .. Len(c) : c[i] = old
                /\ \E i \in 1 .. Len(c) : c[i] = new
                /\ hdr[old].is_free = 0
                /\ hdr[new].is_free = 0
                /\ \A u \in Threads \ {t} :
                      /\ th[u].ret \notin {th[t].block, th[t].new}
                      /\ th[u].new \notin {th[t].block, th[t].new}
                      /\ DOMAIN owned[u] \cap {th[t].block, th[t].new} = {}

\* what thread t can do next while it is inside a call: a step of one of
\* the entry points, the return, or a fault
CallStep(t) ==
    \/ MallocEntry(t) \/ MallocLock(t) \/ MallocReuse(t)
    \/ MallocFail(t) \/ MallocGrow(t) \/ MallocCrash(t)
    \/ FreeEntry(t) \/ FreeLock(t) \/ FreeShrink(t) \/ FreeMark(t)
    \/ FreeCrash(t)
    \/ CallocEntry(t) \/ CallocAfter(t) \/ CallocCrash(t)
    \/ ReallocEntry(t) \/ ReallocAfter(t) \/ ReallocCrash(t)
    \/ Return(t)

\* C20: every started call returns: the first-fit scan and the predecessor
\* scan terminate, so a thread that holds the lock always has a next step,
\* and a thread that waits for the lock waits for a holder that has one.
C20_CallsCanProceed ==
    ~crashed =>
        \A t \in Threads :
            /\ th[t].pc \in {"m_cs", "f_cs"} => ENABLED CallStep(t)
            /\ th[t].pc \in {"m_lock", "f_lock"} =>
                  \/ lock = 0
                  \/ lock \in Threads /\ ENABLED CallStep(lock)

\* C9: whenever an entry point returns, on every path, the returning thread
\* does not hold the global lock: a thread holds it only inside the
\* critical sections of malloc and free.
C9_LockReleased ==
    \A t \in Threads : lock = t => th[t].pc \in {"m_cs", "f_cs"}

C9_Witness ==
    \E t \in Threads :
        /\ Done(t, "realloc") /\ th[t].block # NULL /\ th[t].size > 0
        /\ th[t].ret = NULL
        /\ lock \notin {0, t}

====
